---- MODULE Spec2Model ----
\* Model of the write-ahead log engine of src/finalLof/main.go: the segment
\* directory on disk, the WAL struct, the HTTP write handler run by
\* concurrent goroutines, and process restarts.
EXTENDS Integers, Sequences, FiniteSets, TLC

\* ---------------------------------------------------------------- bounds
NumProcs == 2
MaxRequests == 2
MaxFaults == 1
MaxRestarts == 1
\* serialized length in bytes of one record (set by topic and payload): two
\* such records fill a segment exactly to maxSegmentSize
RecSizes == {250}

\* ------------------------------------------------------ program constants
maxSegmentSize == 500
bufferSize == 4096
segmentPrefix == <<"w", "a", "l", "_">>
logSuffix == <<".", "l", "o", "g">>

Procs == 1..NumProcs

\* ------------------------------------------------- strings as characters
Digits == <<"0", "1", "2", "3", "4", "5", "6", "7", "8", "9">>

IsDigit(c) == \E d \in 1..10 : Digits[d] = c

DigitVal(c) == (CHOOSE d \in 1..10 : Digits[d] = c) - 1

\* fmt.Sprintf("%d", n) for n >= 0
RECURSIVE Itoa(_)
Itoa(n) == IF n < 10 THEN <<Digits[n + 1]>>
           ELSE Itoa(n \div 10) \o <<Digits[(n % 10) + 1]>>

RECURSIVE DigitsVal(_)
DigitsVal(s) == IF s = <<>> THEN 0
                ELSE 10 * DigitsVal(SubSeq(s, 1, Len(s) - 1)) + DigitVal(s[Len(s)])

\* strconv.Atoi: optional sign, then one or more decimal digits
Atoi(s) ==
  LET signed == s # <<>> /\ s[1] \in {"+", "-"}
      body == IF signed THEN Tail(s) ELSE s
  IN IF body = <<>> \/ \E i \in 1..Len(body) : ~IsDigit(body[i])
       THEN [ok |-> FALSE, val |-> 0]
       ELSE [ok |-> TRUE,
             val |-> IF signed /\ s[1] = "-" THEN 0 - DigitsVal(body) ELSE DigitsVal(body)]

HasPrefix(s, p) == Len(s) >= Len(p) /\ SubSeq(s, 1, Len(p)) = p

HasSuffix(s, x) == Len(s) >= Len(x) /\ SubSeq(s, Len(s) - Len(x) + 1, Len(s)) = x

TrimPrefix(s, p) == IF HasPrefix(s, p) THEN SubSeq(s, Len(p) + 1, Len(s)) ELSE s

TrimSuffix(s, x) == IF HasSuffix(s, x) THEN SubSeq(s, 1, Len(s) - Len(x)) ELSE s

\* base name of the segment file of an index, inside the WAL directory
segmentFileName(index) == segmentPrefix \o Itoa(index) \o logSuffix

Max(S) == CHOOSE m \in S : \A x \in S : x <= m

RECURSIVE SumSz(_)
SumSz(data) == IF data = <<>> THEN 0 ELSE Head(data).sz + SumSz(Tail(data))

\* ------------------------------------------------------------ the directory
\* disk maps the base name of every entry of the WAL directory to
\* [isDir, data, synced]: data is the sequence of records in the file (what
\* Stat and a later Open see), synced the length of the prefix that fsync has
\* made durable.
Entries(d) == {[name |-> n, isDir |-> d[n].isDir] : n \in DOMAIN d}

findLastSegemtIndex_first(readErr, entries) ==
  IF readErr THEN 1
  ELSE LET idxs == {Atoi(TrimSuffix(TrimPrefix(e.name, segmentPrefix), logSuffix)).val :
                      e \in {x \in entries :
                               /\ ~x.isDir
                               /\ HasPrefix(x.name, segmentPrefix)
                               /\ Atoi(TrimSuffix(TrimPrefix(x.name, segmentPrefix), logSuffix)).ok}}
           pos == {i \in idxs : i > 0}
       IN IF pos = {} THEN 1 ELSE CHOOSE m \in pos : \A x \in pos : m <= x

\* readErr: os.ReadDir failed (the directory cannot be listed). Otherwise the
\* largest positive index parsed from the names of the non-directory entries
\* that carry the prefix.
findLastSegemtIndex(readErr, entries) ==
  IF readErr THEN 1
  ELSE LET idxs == {Atoi(TrimSuffix(TrimPrefix(e.name, segmentPrefix), logSuffix)).val :
                      e \in {x \in entries :
                               /\ ~x.isDir
                               /\ HasPrefix(x.name, segmentPrefix)
                               /\ Atoi(TrimSuffix(TrimPrefix(x.name, segmentPrefix), logSuffix)).ok}}
           maxIndex == Max(idxs \cup {0})
       IN IF maxIndex = 0 THEN 1 ELSE maxIndex

NewFile == [isDir |-> FALSE, data |-> <<>>, synced |-> 0]

\* os.OpenFile(path, O_CREATE|O_RDWR|O_APPEND): fails on a directory or on an
\* I/O fault, creates the file when it is missing, keeps an existing one.
OpenFails(d, path, fault) == fault = "open" \/ (path \in DOMAIN d /\ d[path].isDir)

OpenFile_trunc(d, path) == [f \in DOMAIN d \cup {path} |-> IF f = path THEN NewFile ELSE d[f]]

OpenFile(d, path) == IF path \in DOMAIN d THEN d ELSE d @@ (path :> NewFile)

\* calculateOffset: the byte size of the file
calculateOffset(d, path) == SumSz(d[path].data)

NoFile == [name |-> <<>>, closed |-> TRUE]
NewWriter == [buf |-> <<>>, err |-> FALSE]
NewEncoder == [err |-> FALSE]

\* ------------------------------------------------------- engine operations
\* The operations of the engine are functions of a record W holding the WAL
\* struct's fields and the disk, and return it updated with the error (""
\* for nil) in W.err.

Fragment(r) == [r EXCEPT !.sz = r.sz \div 2, !.whole = FALSE]

Flush_keep(W, fault) ==
  LET f == W.currentSegment.name IN
  IF W.writer.err THEN [W EXCEPT !.err = "flush"]
  ELSE IF W.writer.buf = <<>> THEN [W EXCEPT !.err = ""]
  ELSE IF W.currentSegment.closed \/ fault = "flush0"
    THEN [W EXCEPT !.writer.err = TRUE, !.err = "flush"]
  ELSE IF fault = "flushPart"
    THEN [W EXCEPT !.disk[f].data = @ \o <<Fragment(Head(W.writer.buf))>>,
                   !.writer.err = TRUE, !.err = "flush"]
  ELSE [W EXCEPT !.disk[f].data = @ \o W.writer.buf, !.err = ""]

\* bufio.Writer.Flush (line 130): writes the buffer to the file; a failed or
\* short write leaves the unwritten bytes buffered and the error sticky.
Flush(W, fault) ==
  LET f == W.currentSegment.name IN
  IF W.writer.err THEN [W EXCEPT !.err = "flush"]
  ELSE IF W.writer.buf = <<>> THEN [W EXCEPT !.err = ""]
  ELSE IF W.currentSegment.closed \/ fault = "flush0"
    THEN [W EXCEPT !.writer.err = TRUE, !.err = "flush"]
  ELSE IF fault = "flushPart"
    THEN [W EXCEPT !.disk[f].data = @ \o <<Fragment(Head(W.writer.buf))>>,
                   !.writer.err = TRUE, !.err = "flush"]
  ELSE [W EXCEPT !.disk[f].data = @ \o W.writer.buf, !.writer.buf = <<>>, !.err = ""]

\* json.Encoder.Encode into the bufio.Writer: a record that fits the free
\* part of the buffer is only buffered, a larger one is written through to
\* the file; both the encoder and the writer keep their first write error.
Encode(W, entry, fault) ==
  IF W.encoder.err THEN [W EXCEPT !.err = "encode"]
  ELSE IF fault = "marshal" THEN [W EXCEPT !.err = "encode"]
  ELSE IF W.writer.err THEN [W EXCEPT !.encoder.err = TRUE, !.err = "encode"]
  ELSE IF entry.sz > bufferSize - SumSz(W.writer.buf)
    THEN LET W1 == Flush([W EXCEPT !.writer.buf = @ \o <<entry>>], fault)
         IN IF W1.err # "" THEN [W1 EXCEPT !.encoder.err = TRUE, !.err = "encode"] ELSE W1
  ELSE [W EXCEPT !.writer.buf = @ \o <<entry>>, !.err = ""]

Sync_skip(W, fault) ==
  IF W.currentSegment.closed THEN [W EXCEPT !.err = "sync"]
  ELSE IF fault = "sync" THEN [W EXCEPT !.err = ""]
  ELSE [W EXCEPT !.disk[W.currentSegment.name].synced = Len(W.disk[W.currentSegment.name].data),
                 !.err = ""]

\* os.File.Sync (line 133)
Sync(W, fault) ==
  IF W.currentSegment.closed \/ fault = "sync" THEN [W EXCEPT !.err = "sync"]
  ELSE [W EXCEPT !.disk[W.currentSegment.name].synced = Len(W.disk[W.currentSegment.name].data),
                 !.err = ""]

FlushE(W, fault) ==
  LET W1 == Flush(W, fault) IN IF W1.err # "" THEN W1 ELSE Sync(W1, fault)

NextSegmentIndex_skip(index) == index + 2

\* line 148
NextSegmentIndex(index) == index + 1

rotateSegment(W, fault) ==
  LET W1 == FlushE(W, fault) IN
  IF W1.err # "" THEN W1
  ELSE IF fault = "close" THEN [W1 EXCEPT !.currentSegment.closed = TRUE, !.err = "close"]
  ELSE LET idx == NextSegmentIndex(W1.currentSegmentIndex)
           path == segmentFileName(idx)
           W2 == [W1 EXCEPT !.currentSegment.closed = TRUE, !.currentSegmentIndex = idx]
       IN IF OpenFails(W2.disk, path, fault) THEN [W2 EXCEPT !.err = "open"]
          ELSE [W2 EXCEPT !.disk = OpenFile(@, path),
                          !.currentSegment = [name |-> path, closed |-> FALSE],
                          !.writer = NewWriter,
                          !.encoder = NewEncoder,
                          !.offset = @ + 1,
                          !.err = ""]

\* the element of a one-element set
The(S) == CHOOSE x \in S : TRUE

\* os.File.Stat of the current segment (line 177)
StatFails(W, fault) == W.currentSegment.closed \/ fault = "stat"

AdvanceOffset_early(off, err) == off + 1

AdvanceOffset_never(off, err) == off

\* line 182, reached only when lines 170-180 returned no error
AdvanceOffset(off, err) == IF err = "" THEN off + 1 ELSE off

NeedsRotation_gt(size) == size > maxSegmentSize

\* line 183
NeedsRotation(size) == size >= maxSegmentSize

\* WriteLog, lines 165-183: W.err is "" when the record is written and the
\* offset advanced, W.rotate tells whether line 184 is next.
WriteLogAppend(W, req, fault) ==
  LET entry == [off |-> W.offset, req |-> req.id, sz |-> req.sz, whole |-> TRUE]
      \* lines 170-172
      Encoded == {Encode(W, entry, fault)}
      \* lines 173-175
      Flushed == {IF W1.err # "" THEN W1 ELSE FlushE(W1, fault) : W1 \in Encoded}
      \* lines 177-180
      Sized == {IF W2.err = "" /\ StatFails(W2, fault) THEN [W2 EXCEPT !.err = "stat"] ELSE W2 :
                  W2 \in Flushed}
      size(W3) == SumSz(W3.disk[W3.currentSegment.name].data)
  IN The({[W3 EXCEPT !.offset = AdvanceOffset(@, W3.err),
                     !.rotate = (W3.err = "" /\ NeedsRotation(size(W3)))] : W3 \in Sized})

\* newWriteAheadLOG, lines 95-127
newWriteAheadLOG(exists, readable, d, fault) ==
  IF fault = "mkdir" THEN [err |-> "mkdir", dirExists |-> exists, disk |-> d]
  ELSE LET segementIndex == findLastSegemtIndex(~readable, Entries(d))
           segmentPath == segmentFileName(segementIndex)
       IN IF OpenFails(d, segmentPath, fault)
            THEN [err |-> "open", dirExists |-> TRUE, disk |-> d]
          ELSE IF fault = "stat"
            THEN [err |-> "stat", dirExists |-> TRUE, disk |-> OpenFile(d, segmentPath)]
          ELSE [err |-> "", dirExists |-> TRUE, disk |-> OpenFile(d, segmentPath),
                currentSegment |-> [name |-> segmentPath, closed |-> FALSE],
                writer |-> NewWriter,
                encoder |-> NewEncoder,
                currentSegmentIndex |-> segementIndex,
                offset |-> 1 + calculateOffset(OpenFile(d, segmentPath), segmentPath)]

\* ------------------------------------------------------------------- state
VARIABLES
  dirExists,            \* the WAL directory exists
  dirReadable,          \* its permissions let os.ReadDir list it
  disk,                 \* its entries
  running,              \* main has constructed the engine and serves requests
  currentSegment,       \* WAL.currentSegment: [name, closed]
  writer,               \* WAL.writer: [buf, err]
  encoder,              \* WAL.encoder: [err]
  currentSegmentIndex,  \* WAL.currentSegmentIndex
  offset,               \* WAL.offset
  mu,                   \* WAL.mu: 0 when free, else the goroutine holding it
  pc,                   \* position of each request goroutine
  loc,                  \* locals of each request goroutine
  lastErr,              \* error returned by the last WriteLog call, "" for nil
  committed,            \* WriteLog calls of this run that returned nil, in order
  acked,                \* the same over all runs
  responses,            \* 201 responses sent in this run
  written,              \* records of this run that passed lines 165-182
  retired,              \* segments a successful rotation has moved past
  runStart,             \* first request number of this run
  nextReq, faults, restarts

vars == <<dirExists, dirReadable, disk, running, currentSegment, writer, encoder,
          currentSegmentIndex, offset, mu, pc, loc, lastErr, committed, acked,
          responses, written, retired, runStart, nextReq, faults, restarts>>

engine == <<currentSegment, writer, encoder, currentSegmentIndex, offset>>
history == <<committed, acked, responses, written, retired, runStart>>

OldRec(off, sz) == [off |-> off, req |-> 0, sz |-> sz, whole |-> TRUE]
Seg(data) == [isDir |-> FALSE, data |-> data, synced |-> Len(data)]
SubDir == [isDir |-> TRUE, data |-> <<>>, synced |-> 0]

\* directories the program may be started on: missing, empty, segments
\* {1,2} in a directory that cannot be listed, segments {1,2,5} next to a
\* subdirectory and a file that is no segment, segments {9,10}
InitialDirs ==
  { [exists |-> FALSE, readable |-> TRUE, disk |-> <<>>],
    [exists |-> TRUE, readable |-> TRUE, disk |-> <<>>],
    [exists |-> TRUE, readable |-> FALSE,
     disk |-> (segmentFileName(1) :> Seg(<<OldRec(1, 500)>>))
           @@ (segmentFileName(2) :> Seg(<<>>))],
    [exists |-> TRUE, readable |-> TRUE,
     disk |-> (segmentFileName(1) :> Seg(<<OldRec(1, 300), OldRec(2, 300)>>))
           @@ (segmentFileName(2) :> Seg(<<OldRec(4, 500)>>))
           @@ (segmentFileName(5) :> Seg(<<OldRec(1, 300)>>))
           @@ (segmentFileName(99) :> SubDir)
           @@ ((segmentPrefix \o <<"x">> \o logSuffix) :> Seg(<<>>))],
    [exists |-> TRUE, readable |-> TRUE,
     disk |-> (segmentFileName(9) :> Seg(<<OldRec(1, 500)>>))
           @@ (segmentFileName(10) :> Seg(<<>>))] }

NoLoc == [req |-> [id |-> 0, sz |-> 0], entryOff |-> 0, file |-> <<>>,
          currentOffset |-> 0, currentSegment |-> 0]

Init ==
  /\ \E d \in InitialDirs :
       dirExists = d.exists /\ dirReadable = d.readable /\ disk = d.disk
  /\ running = FALSE
  /\ currentSegment = NoFile
  /\ writer = NewWriter
  /\ encoder = NewEncoder
  /\ currentSegmentIndex = 0
  /\ offset = 0
  /\ mu = 0
  /\ pc = [p \in Procs |-> "idle"]
  /\ loc = [p \in Procs |-> NoLoc]
  /\ lastErr = ""
  /\ committed = <<>>
  /\ acked = {}
  /\ responses = {}
  /\ written = {}
  /\ retired = {}
  /\ runStart = 1
  /\ nextReq = 1
  /\ faults = 0
  /\ restarts = 0

\* the I/O faults a step may meet, "" for none
Faults(kinds) == {""} \cup (IF faults < MaxFaults THEN kinds ELSE {})

CountFault(fault) == faults' = IF fault = "" THEN faults ELSE faults + 1

World == [currentSegment |-> currentSegment, writer |-> writer, encoder |-> encoder,
          currentSegmentIndex |-> currentSegmentIndex, offset |-> offset,
          disk |-> disk, err |-> "", rotate |-> FALSE]

SetWorld(W) ==
  /\ currentSegment' = W.currentSegment
  /\ writer' = W.writer
  /\ encoder' = W.encoder
  /\ currentSegmentIndex' = W.currentSegmentIndex
  /\ offset' = W.offset
  /\ disk' = W.disk

\* ----------------------------------------------------------------- actions
\* main, lines 192-201: construct the engine and serve, or exit on error
Start ==
  /\ ~running
  /\ \E fault \in Faults({"mkdir", "open", "stat"}) :
       LET r == newWriteAheadLOG(dirExists, dirReadable, disk, fault) IN
       /\ CountFault(fault)
       /\ dirExists' = r.dirExists
       /\ dirReadable' = dirReadable
       /\ disk' = r.disk
       /\ IF r.err = ""
            THEN /\ running' = TRUE
                 /\ currentSegment' = r.currentSegment
                 /\ writer' = r.writer
                 /\ encoder' = r.encoder
                 /\ currentSegmentIndex' = r.currentSegmentIndex
                 /\ offset' = r.offset
            ELSE UNCHANGED <<running, engine>>
  /\ UNCHANGED <<mu, pc, loc, lastErr, history, nextReq, restarts>>

\* handleWrite, lines 222-233: a valid POST arrives and calls WriteLog. The
\* server starts a goroutine per request; it takes the first free slot.
Receive(p) ==
  /\ running
  /\ pc[p] = "idle"
  /\ \A q \in Procs : q < p => pc[q] # "idle"
  /\ nextReq <= MaxRequests
  /\ \E sz \in RecSizes :
       loc' = [loc EXCEPT ![p] = [NoLoc EXCEPT !.req = [id |-> nextReq, sz |-> sz]]]
  /\ nextReq' = nextReq + 1
  /\ pc' = [pc EXCEPT ![p] = "WriteLog"]
  /\ UNCHANGED <<dirExists, dirReadable, disk, running, engine, mu, lastErr, history,
                 faults, restarts>>

Lock_nowait(p) ==
  /\ pc[p] = "WriteLog"
  /\ mu' = p
  /\ pc' = [pc EXCEPT ![p] = "append"]
  /\ UNCHANGED <<dirExists, dirReadable, disk, running, engine, loc, lastErr, history, nextReq,
                 faults, restarts>>

\* WriteLog, line 162
Lock(p) ==
  /\ pc[p] = "WriteLog"
  /\ mu = 0
  /\ mu' = p
  /\ pc' = [pc EXCEPT ![p] = "append"]
  /\ UNCHANGED <<dirExists, dirReadable, disk, running, engine, loc, lastErr, history, nextReq,
                 faults, restarts>>

UnlockOnReturn_okonly(holder, err) == IF err = "" THEN 0 ELSE holder

\* WriteLog, line 163: the deferred unlock runs on every return
UnlockOnReturn(holder, err) == 0

Commit(p, off, file) ==
  /\ committed' = Append(committed, [req |-> loc[p].req.id, off |-> off, file |-> file])
  /\ acked' = acked \cup {[req |-> loc[p].req.id, off |-> off, file |-> file]}

\* WriteLog, lines 165-183 and, when no rotation is due or on error, the
\* return with the deferred unlock; an error makes handleWrite answer 500
\* (lines 233-236)
Write(p) ==
  /\ pc[p] = "append"
  /\ \E fault \in Faults({"marshal", "flush0", "flushPart", "sync", "stat"}) :
       \E W \in {WriteLogAppend(World, loc[p].req, fault)} :
       /\ CountFault(fault)
       /\ SetWorld(W)
       /\ lastErr' = IF W.rotate THEN lastErr ELSE W.err
       /\ loc' = IF W.err # "" THEN [loc EXCEPT ![p] = NoLoc]
                 ELSE [loc EXCEPT ![p].entryOff = offset, ![p].file = currentSegment.name]
       /\ written' = IF W.err # "" THEN written
                     ELSE written \cup {[req |-> loc[p].req.id, off |-> offset,
                                          file |-> currentSegment.name]}
       /\ IF W.err # ""
            THEN /\ mu' = UnlockOnReturn(mu, W.err)
                 /\ pc' = [pc EXCEPT ![p] = "idle"]
                 /\ UNCHANGED <<committed, acked>>
          ELSE IF W.rotate
            THEN /\ mu' = mu
                 /\ pc' = [pc EXCEPT ![p] = "rotate"]
                 /\ UNCHANGED <<committed, acked>>
          ELSE /\ mu' = UnlockOnReturn(mu, W.err)
               /\ pc' = [pc EXCEPT ![p] = "lock"]
               /\ Commit(p, offset, currentSegment.name)
  /\ UNCHANGED <<dirExists, dirReadable, running, responses, retired, runStart, nextReq,
                 restarts>>

\* WriteLog, lines 184-188: rotateSegment, then the return with the unlock
Rotate(p) ==
  /\ pc[p] = "rotate"
  /\ \E fault \in Faults({"sync", "close", "open"}) :
       \E W \in {rotateSegment(World, fault)} :
       /\ CountFault(fault)
       /\ SetWorld(W)
       /\ mu' = UnlockOnReturn(mu, W.err)
       /\ retired' = IF W.err # "" THEN retired
                     ELSE retired \cup {[file |-> currentSegment.name, run |-> restarts]}
       /\ IF W.err # ""
            THEN /\ lastErr' = "rotate"
                 /\ pc' = [pc EXCEPT ![p] = "idle"]
                 /\ loc' = [loc EXCEPT ![p] = NoLoc]
                 /\ UNCHANGED <<committed, acked>>
            ELSE /\ lastErr' = ""
                 /\ pc' = [pc EXCEPT ![p] = "lock"]
                 /\ loc' = loc
                 /\ Commit(p, loc[p].entryOff, loc[p].file)
  /\ UNCHANGED <<dirExists, dirReadable, running, responses, written, runStart, nextReq,
                 restarts>>

ReportedOffset(off) == off

ReportedSegment(index) == index

\* handleWrite, lines 238-241: the counters are read under the lock
ReadState(p) ==
  /\ pc[p] = "lock"
  /\ mu = 0
  /\ loc' = [loc EXCEPT ![p].currentOffset = ReportedOffset(offset),
                        ![p].currentSegment = ReportedSegment(currentSegmentIndex)]
  /\ mu' = 0
  /\ pc' = [pc EXCEPT ![p] = "respond"]
  /\ UNCHANGED <<dirExists, dirReadable, disk, running, engine, lastErr, history, nextReq,
                 faults, restarts>>

\* handleWrite, lines 243-251: the 201 response; w.currentSegment is read
\* without the lock
Respond(p) ==
  /\ pc[p] = "respond"
  /\ responses' = responses \cup
       {[req |-> loc[p].req.id, offset |-> loc[p].currentOffset,
         segment |-> loc[p].currentSegment, fileSize |-> currentSegment.name]}
  /\ pc' = [pc EXCEPT ![p] = "idle"]
  /\ loc' = [loc EXCEPT ![p] = NoLoc]
  /\ UNCHANGED <<dirExists, dirReadable, disk, running, engine, mu, lastErr, committed, acked,
                 written, retired, runStart, nextReq, faults, restarts>>

\* files whose tail has not been fsynced
Unsynced(d) == {f \in DOMAIN d : ~d[f].isDir /\ d[f].synced < Len(d[f].data)}

\* The process or the machine stops: the engine and every request in flight
\* are gone, and of each file at least the fsynced prefix survives.
Crash ==
  /\ running
  /\ restarts < MaxRestarts
  /\ restarts' = restarts + 1
  /\ \E keep \in [Unsynced(disk) -> 0..Max({Len(disk[f].data) : f \in DOMAIN disk} \cup {0})] :
       /\ \A f \in Unsynced(disk) : keep[f] >= disk[f].synced /\ keep[f] <= Len(disk[f].data)
       /\ disk' = [f \in DOMAIN disk |->
                     IF f \in Unsynced(disk)
                       THEN [disk[f] EXCEPT !.data = SubSeq(@, 1, keep[f]), !.synced = keep[f]]
                       ELSE disk[f]]
  /\ running' = FALSE
  /\ currentSegment' = NoFile
  /\ writer' = NewWriter
  /\ encoder' = NewEncoder
  /\ currentSegmentIndex' = 0
  /\ offset' = 0
  /\ mu' = 0
  /\ pc' = [p \in Procs |-> "idle"]
  /\ loc' = [p \in Procs |-> NoLoc]
  /\ lastErr' = ""
  /\ committed' = <<>>
  /\ responses' = {}
  /\ written' = {}
  /\ runStart' = nextReq
  /\ UNCHANGED <<dirExists, dirReadable, acked, retired, nextReq, faults>>

Next ==
  \/ Start
  \/ Crash
  \/ \E p \in Procs : Receive(p)
  \/ \E p \in Procs : Lock(p)
  \/ \E p \in Procs : Write(p)
  \/ \E p \in Procs : Rotate(p)
  \/ \E p \in Procs : ReadState(p)
  \/ \E p \in Procs : Respond(p)

Spec == Init /\ [][Next]_vars

\* The scheduler runs every goroutine that can take a step, and sync.Mutex
\* hands the lock to a goroutine that keeps waiting for it (starvation mode).
Fairness ==
  \A p \in Procs :
    /\ SF_vars(Lock(p))
    /\ WF_vars(Write(p))
    /\ WF_vars(Rotate(p))
    /\ WF_vars(ReadState(p))
    /\ WF_vars(Respond(p))

FairSpec == Spec /\ Fairness

\* ------------------------------------------------------------- properties
\* positions of the records of a request in a file
Places(d, f, req) == {i \in 1..Len(d[f].data) : d[f].data[i].req = req}

\* the segment indices present in a directory: the n whose segment file exists
IndexRange == 1..120
SegmentIndices(d) ==
  {n \in IndexRange : segmentFileName(n) \in DOMAIN d /\ ~d[segmentFileName(n)].isDir}
HighestSegment(d) == IF SegmentIndices(d) = {} THEN 1 ELSE Max(SegmentIndices(d))

\* C1: the offsets of the records written by the successful WriteLog calls
\* of one run, in commit order, increase by exactly 1 from each to the next.
C1_OffsetsStepByOne ==
  \A i \in 1..(Len(committed) - 1) : committed[i + 1].off = committed[i].off + 1

\* C2: the offset reported in every 201 response is the offset stored in the
\* record that the request wrote.
C2_ReportedOffsetIsRecordOffset ==
  \A r \in responses : \E a \in acked : a.req = r.req /\ r.offset = a.off

\* C3: the segment index reported in every 201 response is the index of the
\* segment file that contains the record written by the request.
C3_ReportedSegmentHoldsRecord ==
  \A r \in responses :
    /\ segmentFileName(r.segment) \in DOMAIN disk
    /\ Places(disk, segmentFileName(r.segment), r.req) # {}

\* C4: the offsets reported to the successful requests of one run are
\* pairwise distinct.
C4_ReportedOffsetsDistinct ==
  \A r1, r2 \in responses :
    r1.req # r2.req => r1.offset # r2.offset

\* C5: every record whose WriteLog returned nil lies, whole and with its
\* offset, in the fsynced prefix of its segment file, also after a crash and
\* a restart.
C5_AckedIsDurable ==
  \A a \in acked :
    /\ a.file \in DOMAIN disk
    /\ \E i \in 1..disk[a.file].synced :
         /\ disk[a.file].data[i].req = a.req
         /\ disk[a.file].data[i].off = a.off
         /\ disk[a.file].data[i].whole

C5_Witness ==
  /\ ~running
  /\ restarts > 0
  /\ \E a \in acked : disk[a.file].synced = Len(disk[a.file].data)

\* C6: a successful write leads to a rotation exactly when the segment's size
\* is at or above maxSegmentSize; a successful rotation sets the index to
\* exactly previous + 1 and makes that index's file, which exists, the
\* current segment; the old segment keeps the triggering record and is left
\* as it is; and every write of a running engine goes to the file of the
\* current index.
C6_RotationStep ==
  [][\A p \in Procs :
       /\ (pc[p] = "append" /\ pc'[p] \in {"rotate", "lock"}) =>
            ((pc'[p] = "rotate") <=>
               (SumSz(disk'[currentSegment.name].data) >= maxSegmentSize))
       /\ (pc[p] = "rotate" /\ pc'[p] = "lock") =>
            /\ currentSegmentIndex' = currentSegmentIndex + 1
            /\ segmentFileName(currentSegmentIndex') \in DOMAIN disk'
            /\ currentSegment' =
                 [name |-> segmentFileName(currentSegmentIndex'), closed |-> FALSE]
            /\ writer'.buf = <<>>
            /\ disk'[currentSegment.name] = disk[currentSegment.name]
            /\ Places(disk', currentSegment.name, loc[p].req.id) # {}
       /\ (running /\ running') =>
            \A f \in DOMAIN disk :
              disk'[f] # disk[f] =>
                /\ f = currentSegment.name
                /\ f = segmentFileName(currentSegmentIndex)]_vars

C6_Witness ==
  /\ running
  /\ Len(committed) = 2
  /\ committed[1].file # committed[2].file
  /\ committed[2].file = segmentFileName(currentSegmentIndex)
  /\ Places(disk, committed[2].file, committed[2].req) # {}

\* C7: every record whose WriteLog returned nil appears exactly once in the
\* segment files, whole and in the file it was written to.
C7_AckedExactlyOnce ==
  \A a \in acked :
    /\ a.file \in DOMAIN disk
    /\ Cardinality(Places(disk, a.file, a.req)) = 1
    /\ \A i \in Places(disk, a.file, a.req) : disk[a.file].data[i].whole
    /\ \A g \in DOMAIN disk \ {a.file} : Places(disk, g, a.req) = {}

C7_Witness ==
  \E a, b \in acked :
    /\ a.file # b.file
    /\ Places(disk, a.file, a.req) # {}
    /\ Places(disk, b.file, b.req) # {}

C9_InitialOffsetCountsRecords ==
  [][(~running /\ running') =>
       offset' = Len(disk'[currentSegment'.name].data) + 1]_vars

\* C10: a WriteLog that fails at encoding, flushing or syncing returns the
\* error without acknowledging the entry and leaves the offset counter and
\* the current segment index as they were.
C10_FailedAppendKeepsCounters ==
  [][\A p \in Procs :
       (pc[p] = "append" /\ pc'[p] = "idle" /\ running'
          /\ lastErr' \in {"encode", "flush", "sync"}) =>
         /\ offset' = offset
         /\ currentSegmentIndex' = currentSegmentIndex
         /\ committed' = committed
         /\ acked' = acked
         /\ responses' = responses
         /\ mu' = 0]_vars

C10_Witness ==
  /\ running
  /\ lastErr = "sync"
  /\ disk[currentSegment.name].synced < Len(disk[currentSegment.name].data)

\* the records a step has added to the files
NewRecords(d, d2) ==
  UNION {{d2[f].data[i] :
            i \in ((IF f \in DOMAIN d THEN Len(d[f].data) ELSE 0) + 1)..Len(d2[f].data)} :
         f \in DOMAIN d2}

\* the goroutine is inside the body of WriteLog
InBody(p) == pc[p] \in {"append", "rotate"}

\* C11: when rotateSegment fails, the record just written lies whole in the
\* fsynced part of the old segment and the offset counter is one past the
\* record's offset; and every record written to a file later in the run
\* carries an offset above that of every record that passed line 182.
C11_RotationFailureKeepsRecord ==
  [][/\ \A p \in Procs :
          (pc[p] = "rotate" /\ pc'[p] = "idle" /\ running') =>
            /\ offset' = loc[p].entryOff + 1
            /\ \E i \in 1..disk'[loc[p].file].synced :
                 /\ disk'[loc[p].file].data[i].req = loc[p].req.id
                 /\ disk'[loc[p].file].data[i].off = loc[p].entryOff
                 /\ disk'[loc[p].file].data[i].whole
            /\ \E w \in written' : w.req = loc[p].req.id /\ w.off = loc[p].entryOff
     /\ running' =>
          /\ \A w \in written' : w.off < offset'
          /\ \A w \in written : \A r \in NewRecords(disk, disk') : r.off > w.off]_vars

C11_Witness ==
  /\ running
  /\ currentSegment.closed
  /\ writer.err
  /\ \E w \in written :
       /\ \A a \in acked : a.req # w.req
       /\ w.off < offset
       /\ Places(disk, w.file, w.req) # {}

\* C12: on an engine whose rotation failed (the segment handle is closed),
\* an Append that meets an I/O fault fails, and an Append that meets none
\* (a segment can be opened again) succeeds on an open segment.
C12_DegradedThenRecovers ==
  [][\A p \in Procs :
       (pc[p] = "append" /\ currentSegment.closed /\ running' /\ pc'[p] # "append") =>
         IF faults' = faults
           THEN pc'[p] \in {"lock", "rotate"} /\ ~currentSegment'.closed
           ELSE pc'[p] = "idle"]_vars

\* C13: in a directory that can be listed, the current segment index of a
\* running engine is the highest index of the segment files that exist.
C13_IndexIsHighestCreated ==
  (running /\ dirReadable) => currentSegmentIndex = HighestSegment(disk)

\* C14: whenever an Append holds the lock at the start of WriteLog's body,
\* the segment handle is open and is the file of currentSegmentIndex.
C14_AppendSeesOpenSegment ==
  \A p \in Procs :
    pc[p] = "append" =>
      /\ ~currentSegment.closed
      /\ currentSegment.name = segmentFileName(currentSegmentIndex)
      /\ currentSegment.name \in DOMAIN disk

\* C15: at most one goroutine is inside the body of WriteLog, it is the one
\* holding the lock, and while it is inside no step of another goroutine
\* changes the engine's fields or the segment files.
C15_AppendIsCriticalSection ==
  /\ [](/\ \A p, q \in Procs : (p # q) => ~(InBody(p) /\ InBody(q))
        /\ \A p \in Procs : InBody(p) => mu = p)
  /\ [][(mu # 0 /\ running'
           /\ <<currentSegment, writer, encoder, currentSegmentIndex, offset, disk>>'
                # <<currentSegment, writer, encoder, currentSegmentIndex, offset, disk>>)
          => pc'[mu] # pc[mu]]_vars

C15_Witness ==
  \E p, q \in Procs : pc[p] = "rotate" /\ pc[q] = "WriteLog" /\ mu = p

\* C16: the lock is held only by a goroutine inside WriteLog's body, a
\* caller leaves line 162 only by taking the lock, and every step that leaves
\* the body, by success or by any error, releases it; under fair scheduling
\* no goroutine stays in WriteLog for ever, waiting or inside: every blocked
\* caller acquires the lock and every Append returns (or the process dies).
C16_LockReleasedAndProgress ==
  /\ [](mu # 0 => InBody(mu))
  /\ [][\A p \in Procs :
          /\ (InBody(p) /\ pc'[p] \notin {"append", "rotate"}) => mu' = 0
          /\ (pc[p] = "WriteLog" /\ pc'[p] # "WriteLog" /\ running') =>
               (pc'[p] = "append" /\ mu' = p)]_vars
  /\ \A p \in Procs : []<>(pc[p] \notin {"WriteLog", "append", "rotate"})

C16_Witness ==
  /\ running
  /\ mu = 0
  /\ lastErr # ""
  /\ \E p \in Procs : pc[p] = "WriteLog"

\* C17: in a directory that can be listed, whenever an Append holds the lock
\* and is about to write into an open segment, the size of that segment is
\* below maxSegmentSize.
C17_AppendStartsBelowThreshold ==
  \A p \in Procs :
    (pc[p] = "append" /\ dirReadable /\ ~currentSegment.closed) =>
      SumSz(disk[currentSegment.name].data) < maxSegmentSize

\* whole records the files hold that this run of the engine wrote
RunRecords(d) ==
  {[file |-> f, pos |-> i, off |-> d[f].data[i].off] :
     <<f, i>> \in {x \in UNION {{<<g, j>> : j \in 1..Len(d[g].data)} : g \in DOMAIN d} :
                     /\ d[x[1]].data[x[2]].whole
                     /\ d[x[1]].data[x[2]].req >= runStart}}

\* C18: no two whole records that one run of the engine has written to the
\* segment files carry the same offset.
C18_NoOffsetTwiceOnDisk ==
  running => \A r1, r2 \in RunRecords(disk) : (r1.off = r2.off) => (r1 = r2)

\* a step of the program: an Append, a rotation, an Open or a request
\* handler's step, but not the death of the process
ProgramStep == ~(running /\ ~running')

\* every file stays and its content is extended at the end at most
ExtendedOnly ==
  \A f \in DOMAIN disk :
    /\ f \in DOMAIN disk'
    /\ Len(disk'[f].data) >= Len(disk[f].data)
    /\ SubSeq(disk'[f].data, 1, Len(disk[f].data)) = disk[f].data
    /\ disk'[f].synced >= disk[f].synced

C20_NoUnlockedReadDuringRotation ==
  \A p, q \in Procs : (p # q) => ~(pc[p] = "respond" /\ pc[q] = "rotate" /\ mu # p)
====
